---- MODULE Spec2Model ----
(***************************************************************************)
(* The job pipeline of the Reddit market research app: the JobManager's    *)
(* job table, the scrape / analysis / delete tasks it runs between awaits, *)
(* the data directory, and the transport routes that call it.              *)
(***************************************************************************)
EXTENDS Naturals, Integers, FiniteSets, Sequences, Bags, TLC

(* ---- bounds of the model ---- *)
MaxJobs == 1
MaxTasks == 2
MaxClock == 1
MaxSubs == 1
MaxPostLimit == 2
MaxExportJobs == 2
MaxCreated == 2
MaxListed == 3
MaxPainPoints == 4
MaxSymptoms == 7
MaxMaterial == 1
MaxPosts == 3
MaxItems == 3
MaxCorpus == 2
MaxFound == 2

VARIABLES
    jobs,        \* job objects ever created, by id (a task keeps its object after deletion)
    table,       \* ids currently in this.jobs
    tasks,       \* bag of the suspended async functions (position + locals)
    files,       \* file names present in dataDir
    now,         \* the last value read from Date.now()
    configured,  \* claudeService.apiKey is set
    lastOp,      \* the call or task completion that just happened, and its outcome
    exports,     \* the files of exportsDir: file name -> the job whose report it holds
    input,       \* the argument of the call that just happened
    output       \* the value the call that just happened returned

vars == <<jobs, table, tasks, files, now, configured, lastOp, exports, input, output>>

(* ---- values ---- *)
NoFile == [kind |-> "none", job |-> 0, ts |-> 0]
FileName(kind, id, ts) == [kind |-> kind, job |-> id, ts |-> ts]
Idle == [kind |-> "idle", job |-> 0, pc |-> "none", sub |-> 0, n |-> 0, pi |-> 0,
         tp |-> 0, fetchErr |-> FALSE, name |-> NoFile, format |-> "none"]
NoOp == [op |-> "none", id |-> 0, res |-> "none"]
Op(op, id, res) == [op |-> op, id |-> id, res |-> res]

JobNotFound == "Job not found"
NotScraped == "Job must be in scraped status to analyze"
NotConfigured == "Claude API key not configured. Please set your API key in settings."
WriteError == "write failed"
ReadError == "read failed"
StrategyError == "analysis backend failed"
NoAnalysis == "No analysis available for this job"
Unsupported == "Unsupported export format"

(* a field of a request or of a config argument: <<>> when absent, <<v>> when given.     *)
(* A list of subreddits is given by its length, a topic by its characters.               *)
OrNum(field, default) == IF field = <<>> \/ field[1] = 0 THEN default ELSE field[1]
(* mutant: an absent string field is stored as the empty string *)
OrStr_NoDefault(field, default) == IF field = <<>> THEN "" ELSE field[1]

OrStr(field, default) == IF field = <<>> \/ field[1] = "" THEN default ELSE field[1]
OrText(field, default) == IF field = <<>> \/ field[1] = <<>> THEN default ELSE field[1]
OrList(field) == IF field = <<>> THEN 0 ELSE field[1]

Topic == <<"g", "u", "t">>

(* the configs the pipeline is run with *)
Configs == [subreddits : {<<n>> : n \in 0..MaxSubs}, topic : {<<Topic>>},
            postLimit : {<<n>> : n \in 1..MaxPostLimit}, commentLimit : {<<50>>},
            sort : {<<"top">>}, timeFilter : {<<"year">>}]

Progress(phase, percent) == [phase |-> phase, percent |-> percent]

(* mutant: the fraction of the work done is scaled to a per mille value *)
Percent_PerMille(tp, cfg) == (2000 * tp + cfg.nSubs * cfg.postLimit) \div (2 * cfg.nSubs * cfg.postLimit)

(* Math.round((totalProgress / totalWork) * 100), totalWork = subreddits.length * postLimit *)
Percent(tp, cfg) == (200 * tp + cfg.nSubs * cfg.postLimit) \div (2 * cfg.nSubs * cfg.postLimit)

(* ---- the job record and its transitions ---- *)
(* new Date().toISOString() and new Date(string), on a clock of whole milliseconds *)
ToISOString(ts) == [iso |-> ts]
DateOf(string) == string.iso

NewJob(config, ts) ==
    [status |-> "pending",
     config |-> [nSubs |-> OrList(config.subreddits),
                 topic |-> OrText(config.topic, <<>>),
                 postLimit |-> OrNum(config.postLimit, 50),
                 commentLimit |-> OrNum(config.commentLimit, 50),
                 sort |-> OrStr(config.sort, "top"),
                 timeFilter |-> OrStr(config.timeFilter, "year")],
     progress |-> Progress("pending", 0), createdAt |-> ToISOString(ts),
     error |-> "null", result |-> "null", dataFile |-> NoFile, analysisFile |-> NoFile]

Running(job) == [job EXCEPT !.status = "running", !.progress = Progress("starting", 0)]

ScrapeProgress(job, phase, tp) == [job EXCEPT !.progress = Progress(phase, Percent(tp, job.config))]

(* mutant: the success path forgets job.status = 'scraped' *)
Scraped_NoStatus(job, name) ==
    [job EXCEPT !.dataFile = name, !.progress = Progress("scraped", 100), !.result = "summary"]

Scraped(job, name) ==
    [job EXCEPT !.dataFile = name, !.progress = Progress("scraped", 100),
                !.status = "scraped", !.result = "summary"]

ScrapeFailed(job, msg) ==
    [job EXCEPT !.status = "failed", !.error = msg, !.progress = Progress("error", 0)]

(* mutant: the guard only checks that the scrape is over *)
CanAnalyze_AfterScrape(job) == job.status # "pending" /\ job.status # "running"

(* mutant: the guard lets a job that is being analysed through *)
CanAnalyze_Reentrant(job) == job.status \in {"scraped", "analyzed", "analyzing"}

CanAnalyze(job) == job.status = "scraped" \/ job.status = "analyzed"

Analyzing(job) == [job EXCEPT !.status = "analyzing", !.progress = Progress("analyzing", 0)]

AnalysisProgress(job, phase, percent) == [job EXCEPT !.progress = Progress(phase, percent)]

(* mutant: the success path forgets job.analysisFile = analysisFileName *)
Analyzed_NoFile(job, name) ==
    [job EXCEPT !.progress = Progress("complete", 100), !.status = "analyzed"]

Analyzed(job, name) ==
    [job EXCEPT !.analysisFile = name, !.progress = Progress("complete", 100),
                !.status = "analyzed"]

(* mutant: the catch block drops the reference to the earlier report *)
AnalysisFailed_NoFile(job, msg) ==
    [job EXCEPT !.status = "analysis_failed", !.error = msg, !.progress = Progress("error", 0),
                !.analysisFile = NoFile]

(* mutant: the catch block forgets job.error = err.message *)
AnalysisFailed_NoError(job, msg) ==
    [job EXCEPT !.status = "analysis_failed", !.progress = Progress("error", 0)]

AnalysisFailed(job, msg) ==
    [job EXCEPT !.status = "analysis_failed", !.error = msg, !.progress = Progress("error", 0)]

(* ---- suspended tasks ---- *)
Task(kind, j, pc, name) == [Idle EXCEPT !.kind = kind, !.job = j, !.pc = pc, !.name = name]
Spawn(task) == tasks (+) SetToBag({task})
Resume(task, next) == (tasks (-) SetToBag({task})) (+) SetToBag({next})
Finish(task) == tasks (-) SetToBag({task})
Suspended(kinds) == {task \in BagToSet(tasks) : task.kind \in kinds}
InFlight(j, kinds) ==
    BagCardinality([task \in {u \in Suspended(kinds) : u.job = j} |-> tasks[task]])
Room == BagCardinality(tasks) < MaxTasks

(* the task a scrape is suspended in once scrapeSubreddits has run up to its next await *)
ScrapeAt(j, cfg, sub, tp, err, ts) ==
    IF sub <= cfg.nSubs
    THEN [Idle EXCEPT !.kind = "scrape", !.job = j, !.pc = "posts", !.sub = sub,
                      !.tp = tp, !.fetchErr = err]
    ELSE [Idle EXCEPT !.kind = "scrape", !.job = j, !.pc = "write",
                      !.fetchErr = err, !.name = FileName("scrape", j, ts)]

(* the values a read of Date.now() can return: the clock never runs backwards *)
ClockReads == now..MaxClock
(* the scrape reads the clock when it leaves the loop over subreddits to name its file *)
ScrapeClock(cfg, sub) == IF sub <= cfg.nSubs THEN {now} ELSE ClockReads

Init ==
    /\ jobs = <<>>
    /\ table = {}
    /\ tasks = EmptyBag
    /\ files = {}
    /\ now = 0
    /\ configured \in BOOLEAN
    /\ lastOp = NoOp
    /\ exports = <<>>
    /\ input = <<>>
    /\ output = <<>>

(* ---- JobManager calls ---- *)
CreateJob(config) ==
    \E ts \in ClockReads :
        /\ jobs' = Append(jobs, NewJob(config, ts))
        /\ table' = table \cup {Len(jobs) + 1}
        /\ now' = ts
        /\ lastOp' = Op("createJob", Len(jobs) + 1, "ok")
        /\ input' = config
        /\ UNCHANGED <<tasks, files, configured, exports, output>>

(* the job after startJob's assignments and the part of the scrape that runs before its first await *)
Started(job) ==
    IF job.config.nSubs >= 1 THEN ScrapeProgress(Running(job), "posts", 0) ELSE Running(job)

StartJob(j) ==
    IF j \notin table
       THEN /\ lastOp' = Op("startJob", j, JobNotFound)
            /\ UNCHANGED <<jobs, table, tasks, files, now, configured, exports, input, output>>
       ELSE /\ Room
            /\ jobs' = [jobs EXCEPT ![j] = Started(@)]
            /\ \E ts \in ScrapeClock(jobs[j].config, 1) :
                  /\ tasks' = Spawn(ScrapeAt(j, jobs[j].config, 1, 0, FALSE, ts))
                  /\ now' = ts
            /\ lastOp' = Op("startJob", j, "ok")
            /\ UNCHANGED <<table, files, configured, exports, input, output>>

(* the job after startAnalysis's assignments and the part of _runAnalysisJob before its first await *)
AnalysisStarted(job) ==
    IF configured THEN Analyzing(job)
    ELSE AnalysisFailed(AnalysisFailed(Analyzing(job), NotConfigured), NotConfigured)

StartAnalysis(j) ==
    IF j \notin table
       THEN /\ lastOp' = Op("startAnalysis", j, JobNotFound)
            /\ UNCHANGED <<jobs, table, tasks, files, now, configured, exports, input, output>>
       ELSE IF ~CanAnalyze(jobs[j])
       THEN /\ lastOp' = Op("startAnalysis", j, NotScraped)
            /\ UNCHANGED <<jobs, table, tasks, files, now, configured, exports, input, output>>
       ELSE /\ configured => Room
            /\ jobs' = [jobs EXCEPT ![j] = AnalysisStarted(@)]
            /\ tasks' = IF configured
                        THEN Spawn(Task("analysis", j, "read", jobs[j].dataFile))
                        ELSE tasks
            /\ lastOp' = Op("startAnalysis", j, "ok")
            /\ UNCHANGED <<table, files, now, configured, exports, input, output>>

(* fs.unlink(name) returned or threw: the file is gone unless the call threw on a file it could not remove *)
Unlinked(name, threw) == IF threw THEN files ELSE files \ {name}

(* mutant: an error of fs.unlink escapes deleteJob before this.jobs.delete(jobId) *)
Deleted_Rethrow(j, threw) == IF threw THEN table ELSE table \ {j}

(* this.jobs.delete(jobId), reached whether or not an unlink threw *)
Deleted(j, threw) == table \ {j}

(* deleteJob up to its first await (or to its return when there is nothing to unlink) *)
DeleteJob(j) ==
    IF j \notin table
       THEN /\ lastOp' = Op("deleteJob", j, "false")
            /\ UNCHANGED <<jobs, table, tasks, files, now, configured, exports, input, output>>
       ELSE IF jobs[j].dataFile # NoFile
       THEN /\ Room
            /\ tasks' = Spawn(Task("delete", j, "unlinkData", jobs[j].dataFile))
            /\ lastOp' = NoOp
            /\ UNCHANGED <<jobs, table, files, now, configured, exports, input, output>>
       ELSE IF jobs[j].analysisFile # NoFile
       THEN /\ Room
            /\ tasks' = Spawn(Task("delete", j, "unlinkAnalysis", jobs[j].analysisFile))
            /\ lastOp' = NoOp
            /\ UNCHANGED <<jobs, table, files, now, configured, exports, input, output>>
       ELSE /\ table' = Deleted(j, FALSE)
            /\ lastOp' = Op("deleteJob", j, "true")
            /\ UNCHANGED <<jobs, tasks, files, now, configured, exports, input, output>>

(* fs.unlink of the corpus file returned or threw (the error is ignored) *)
DeleteUnlinkData(task) ==
    LET j == task.job
    IN  /\ task \in Suspended({"delete"}) /\ task.pc = "unlinkData"
        /\ \E threw \in BOOLEAN :
              /\ files' = Unlinked(task.name, threw)
              /\ IF jobs[j].analysisFile # NoFile
                 THEN /\ tasks' = Resume(task, [Task("delete", j, "unlinkAnalysis", jobs[j].analysisFile)
                                                   EXCEPT !.fetchErr = threw])
                      /\ lastOp' = NoOp
                      /\ UNCHANGED table
                 ELSE /\ tasks' = Finish(task)
                      /\ table' = Deleted(j, threw)
                      /\ lastOp' = Op("deleteJob", j, "true")
        /\ UNCHANGED <<jobs, now, configured, exports, input, output>>

(* fs.unlink of the analysis file returned or threw (the error is ignored) *)
DeleteUnlinkAnalysis(task) ==
    LET j == task.job
    IN  /\ task \in Suspended({"delete"}) /\ task.pc = "unlinkAnalysis"
        /\ \E threw \in BOOLEAN :
              /\ files' = Unlinked(task.name, threw)
              /\ table' = Deleted(j, task.fetchErr \/ threw)
        /\ tasks' = Finish(task)
        /\ lastOp' = Op("deleteJob", j, "true")
        /\ UNCHANGED <<jobs, now, configured, exports, input, output>>

(* POST /settings/api-key *)
SetApiKey ==
    /\ ~configured
    /\ configured' = TRUE
    /\ lastOp' = NoOp
    /\ UNCHANGED <<jobs, table, tasks, files, now, exports, input, output>>

(* ---- the scrape task: _runScrapeJob driving scrapeSubreddits ---- *)
(* the job once the loop over subreddits has moved on to subreddit sub (or past the last one) *)
AtSubreddit(job, sub, tp) ==
    IF sub <= job.config.nSubs THEN ScrapeProgress(job, "posts", tp) ELSE job

(* getPosts returned n posts for the current subreddit; failed tells whether a request failed *)
ScrapePosts(task, n, failed, ts) ==
    LET j == task.job
        err == task.fetchErr \/ failed
    IN  /\ task \in Suspended({"scrape"}) /\ task.pc = "posts"
        /\ n \in 0..jobs[j].config.postLimit
        /\ failed => n < jobs[j].config.postLimit
        /\ ts \in (IF n >= 1 THEN {now} ELSE ScrapeClock(jobs[j].config, task.sub + 1))
        /\ IF n >= 1
           THEN /\ jobs' = [jobs EXCEPT ![j] = ScrapeProgress(@, "comments", task.tp)]
                /\ tasks' = Resume(task, [task EXCEPT !.pc = "comments", !.n = n, !.pi = 1,
                                                      !.fetchErr = err])
           ELSE /\ jobs' = [jobs EXCEPT ![j] = AtSubreddit(@, task.sub + 1, task.tp)]
                /\ tasks' = Resume(task, ScrapeAt(j, jobs[j].config, task.sub + 1, task.tp, err, ts))
        /\ now' = ts
        /\ lastOp' = NoOp
        /\ UNCHANGED <<table, files, configured, exports, input, output>>

(* getComments returned for post pi (an empty list when its request failed) *)
ScrapeComments(task, failed, ts) ==
    LET j == task.job
        err == task.fetchErr \/ failed
        tp == task.tp + 1
    IN  /\ task \in Suspended({"scrape"}) /\ task.pc = "comments"
        /\ ts \in (IF task.pi < task.n THEN {now}
                   ELSE ScrapeClock(jobs[j].config, task.sub + 1))
        /\ IF task.pi < task.n
           THEN /\ jobs' = [jobs EXCEPT ![j] = ScrapeProgress(@, "comments", tp)]
                /\ tasks' = Resume(task, [task EXCEPT !.pi = task.pi + 1, !.tp = tp,
                                                      !.fetchErr = err])
           ELSE /\ jobs' = [jobs EXCEPT ![j] = AtSubreddit(@, task.sub + 1, tp)]
                /\ tasks' = Resume(task, ScrapeAt(j, jobs[j].config, task.sub + 1, tp, err, ts))
        /\ now' = ts
        /\ lastOp' = NoOp
        /\ UNCHANGED <<table, files, configured, exports, input, output>>

(* fs.writeFile of the corpus succeeded *)
ScrapeWriteOk(task) ==
    LET j == task.job
    IN  /\ task \in Suspended({"scrape"}) /\ task.pc = "write"
        /\ files' = files \cup {task.name}
        /\ jobs' = [jobs EXCEPT ![j] = Scraped(@, task.name)]
        /\ tasks' = Finish(task)
        /\ lastOp' = Op("scrapeTask", j, IF task.fetchErr THEN "partial" ELSE "ok")
        /\ UNCHANGED <<table, now, configured, exports, input, output>>

(* fs.writeFile threw: the catch block, then the .catch handler of startJob *)
ScrapeWriteFail(task) ==
    LET j == task.job
    IN  /\ task \in Suspended({"scrape"}) /\ task.pc = "write"
        /\ jobs' = [jobs EXCEPT ![j] = ScrapeFailed(ScrapeFailed(@, WriteError), WriteError)]
        /\ tasks' = Finish(task)
        /\ lastOp' = Op("scrapeTask", j, WriteError)
        /\ UNCHANGED <<table, files, now, configured, exports, input, output>>

(* ---- the analysis task: _runAnalysisJob driving analyzeScrapedData ---- *)
(* a step of the task threw msg: the catch block, then the .catch handler of startAnalysis *)
AnalysisThrows(task, msg) ==
    /\ jobs' = [jobs EXCEPT ![task.job] = AnalysisFailed(AnalysisFailed(@, msg), msg)]
    /\ tasks' = Finish(task)
    /\ lastOp' = Op("analysisTask", task.job, msg)
    /\ UNCHANGED <<table, files, now, configured, exports, input, output>>

(* fs.readFile returned the corpus; analyzeScrapedData runs up to its request to the backend *)
AnalysisReadOk(task) ==
    /\ task \in Suspended({"analysis"}) /\ task.pc = "read"
    /\ task.name \in files
    /\ jobs' = [jobs EXCEPT ![task.job] =
                   AnalysisProgress(AnalysisProgress(@, "preparing", 5), "analyzing", 20)]
    /\ tasks' = Resume(task, [task EXCEPT !.pc = "strategy", !.name = NoFile])
    /\ lastOp' = NoOp
    /\ UNCHANGED <<table, files, now, configured, exports, input, output>>

(* fs.readFile threw (the file is gone) or JSON.parse threw *)
AnalysisReadFail(task) ==
    /\ task \in Suspended({"analysis"}) /\ task.pc = "read"
    /\ AnalysisThrows(task, ReadError)

(* the backend answered; the report is built and fs.writeFile is called *)
AnalysisStrategyOk(task, ts) ==
    /\ task \in Suspended({"analysis"}) /\ task.pc = "strategy"
    /\ ts \in ClockReads
    /\ jobs' = [jobs EXCEPT ![task.job] =
                   AnalysisProgress(AnalysisProgress(@, "processing", 90), "complete", 100)]
    /\ tasks' = Resume(task, [task EXCEPT !.pc = "write",
                                          !.name = FileName("analysis", task.job, ts)])
    /\ now' = ts
    /\ lastOp' = NoOp
    /\ UNCHANGED <<table, files, configured, exports, input, output>>

(* the backend request failed or timed out *)
AnalysisStrategyFail(task) ==
    /\ task \in Suspended({"analysis"}) /\ task.pc = "strategy"
    /\ AnalysisThrows(task, StrategyError)

(* fs.writeFile of the report succeeded *)
AnalysisWriteOk(task) ==
    /\ task \in Suspended({"analysis"}) /\ task.pc = "write"
    /\ files' = files \cup {task.name}
    /\ jobs' = [jobs EXCEPT ![task.job] = Analyzed(@, task.name)]
    /\ tasks' = Finish(task)
    /\ lastOp' = Op("analysisTask", task.job, "ok")
    /\ UNCHANGED <<table, now, configured, exports, input, output>>

(* fs.writeFile of the report threw *)
AnalysisWriteFail(task) ==
    /\ task \in Suspended({"analysis"}) /\ task.pc = "write"
    /\ AnalysisThrows(task, WriteError)

Ids == 1..MaxJobs

Background ==
    \E task \in BagToSet(tasks) :
        \/ \E n \in 0..MaxPostLimit, failed \in BOOLEAN, ts \in 0..MaxClock :
               ScrapePosts(task, n, failed, ts)
        \/ \E failed \in BOOLEAN, ts \in 0..MaxClock : ScrapeComments(task, failed, ts)
        \/ ScrapeWriteOk(task)
        \/ ScrapeWriteFail(task)
        \/ AnalysisReadOk(task)
        \/ AnalysisReadFail(task)
        \/ \E ts \in 0..MaxClock : AnalysisStrategyOk(task, ts)
        \/ AnalysisStrategyFail(task)
        \/ AnalysisWriteOk(task)
        \/ AnalysisWriteFail(task)
        \/ DeleteUnlinkData(task)
        \/ DeleteUnlinkAnalysis(task)

Next == \/ \E cfg \in Configs : Len(jobs) < MaxJobs /\ CreateJob(cfg)
        \/ \E j \in Ids : StartJob(j)
        \/ \E j \in Ids : StartAnalysis(j)
        \/ \E j \in Ids : DeleteJob(j)
        \/ SetApiKey
        \/ Background

Spec == Init /\ [][Next]_vars

(* ---- the transport: the routes are the only callers of the JobManager ---- *)
(* subreddits.join(', ') for a list of n one-letter names *)
Joined(n) == IF n = 1 THEN <<"a">> ELSE <<"a", ",", " ", "a">>

(* the config POST /jobs hands to createJob *)
RouteConfig(body) ==
    [subreddits |-> body.subreddits,
     topic |-> <<OrText(body.topic, Joined(OrList(body.subreddits)))>>,
     postLimit |-> <<OrNum(body.postLimit, 50)>>,
     commentLimit |-> <<OrNum(body.commentLimit, 50)>>,
     sort |-> <<OrStr(body.sort, "top")>>,
     timeFilter |-> <<OrStr(body.timeFilter, "year")>>]

(* POST /jobs: createJob, then startJob on the new job, in one synchronous run *)
PostJobs(body) ==
    LET j == Len(jobs) + 1
    IN  IF OrList(body.subreddits) = 0
        THEN /\ lastOp' = Op("postJobs", 0, "400")
             /\ UNCHANGED <<jobs, table, tasks, files, now, configured, exports, input, output>>
        ELSE /\ Len(jobs) < MaxJobs
             /\ Room
             /\ \E ts \in ClockReads :
                   /\ jobs' = Append(jobs, Started(NewJob(RouteConfig(body), ts)))
                   /\ now' = ts
             /\ table' = table \cup {j}
             /\ tasks' = Spawn(ScrapeAt(j, jobs'[j].config, 1, 0, FALSE, now'))
             /\ lastOp' = Op("postJobs", j, "201")
             /\ UNCHANGED <<files, configured, exports, input, output>>

ApiNext == \/ \E cfg \in Configs : PostJobs(cfg)
           \/ \E j \in Ids : StartAnalysis(j)
           \/ \E j \in Ids : DeleteJob(j)
           \/ SetApiKey
           \/ Background

SpecApi == Init /\ [][ApiNext]_vars

(* ---- scheduling: every pending I/O of a task eventually returns or throws ---- *)
ScrapeStep(j) ==
    \E task \in Suspended({"scrape"}) :
        /\ task.job = j
        /\ \/ \E n \in 0..MaxPostLimit, failed \in BOOLEAN, ts \in 0..MaxClock :
                 ScrapePosts(task, n, failed, ts)
           \/ \E failed \in BOOLEAN, ts \in 0..MaxClock : ScrapeComments(task, failed, ts)
           \/ ScrapeWriteOk(task)
           \/ ScrapeWriteFail(task)

AnalysisStep(j) ==
    \E task \in Suspended({"analysis"}) :
        /\ task.job = j
        /\ \/ AnalysisReadOk(task)
           \/ AnalysisReadFail(task)
           \/ \E ts \in 0..MaxClock : AnalysisStrategyOk(task, ts)
           \/ AnalysisStrategyFail(task)
           \/ AnalysisWriteOk(task)
           \/ AnalysisWriteFail(task)

FairSpec == Spec /\ \A j \in Ids : WF_vars(ScrapeStep(j)) /\ WF_vars(AnalysisStep(j))

(* ---- the accessors of the artifacts ---- *)
(* getScrapedData / getAnalysisResult up to the await of fs.readFile *)
GetArtifact(op, j, name) ==
    IF j \notin table \/ name = NoFile
    THEN /\ lastOp' = Op(op, j, "null")
         /\ UNCHANGED <<jobs, table, tasks, files, now, configured, exports, input, output>>
    ELSE /\ Room
         /\ tasks' = Spawn(Task(op, j, "read", name))
         /\ lastOp' = NoOp
         /\ UNCHANGED <<jobs, table, files, now, configured, exports, input, output>>

GetScrapedData(j) == GetArtifact("getScrapedData", j, IF j \in table THEN jobs[j].dataFile ELSE NoFile)

GetAnalysisResult(j) ==
    GetArtifact("getAnalysisResult", j, IF j \in table THEN jobs[j].analysisFile ELSE NoFile)

Getters == {"getScrapedData", "getAnalysisResult"}

(* fs.readFile returned the file and JSON.parse its content *)
GetReadOk(task) ==
    /\ task \in Suspended(Getters) /\ task.pc = "read"
    /\ task.name \in files
    /\ tasks' = Finish(task)
    /\ lastOp' = Op(task.kind, task.job, "data")
    /\ UNCHANGED <<jobs, table, files, now, configured, exports, input, output>>

(* fs.readFile threw ENOENT: nothing catches it in the accessor *)
GetReadFail(task) ==
    /\ task \in Suspended(Getters) /\ task.pc = "read"
    /\ task.name \notin files
    /\ tasks' = Finish(task)
    /\ lastOp' = Op(task.kind, task.job, ReadError)
    /\ UNCHANGED <<jobs, table, files, now, configured, exports, input, output>>

(* ---- exportAnalysis ---- *)
Letters == {"a", "g", "i", "l", "n", "s", "t", "u", "y"}

(* text with its leading white space removed *)
RECURSIVE SkipSpace(_)
SkipSpace(text) ==
    IF text # <<>> /\ Head(text) = " " THEN SkipSpace(Tail(text)) ELSE text

(* text.replace(/\s+/g, '_') *)
RECURSIVE Underscored(_)
Underscored(text) ==
    IF text = <<>> THEN <<>>
    ELSE IF Head(text) = " " THEN <<"_">> \o Underscored(SkipSpace(text))
    ELSE <<Head(text)>> \o Underscored(Tail(text))

IsWordChar(c) == c \in Letters \cup {"_"}

(* (job.config.topic || 'analysis').replace(/\s+/g, '_').replace(/[^a-zA-Z0-9_]/g, '') *)
TopicSlug(topic) ==
    SelectSeq(Underscored(IF topic = <<>> THEN <<"a", "n", "a", "l", "y", "s", "i", "s">> ELSE topic),
              IsWordChar)

(* mutant: the default branch of the switch falls through to the json case *)
Supported_Any(format) == TRUE

Supported(format) == format \in {"json", "markdown", "csv"}

Extension(format) == CASE format = "json" -> "json" [] format = "markdown" -> "md" [] OTHER -> "csv"

(* `export_${topicSlug}_${timestamp}.${extension}` *)
ExportName(topicSlug, ts, extension) ==
    [kind |-> "export", topic |-> topicSlug, ts |-> ts, ext |-> extension]

Formats == {"json", "markdown", "csv", "xml"}

(* exportAnalysis up to the await of getAnalysisResult's fs.readFile *)
ExportAnalysis(j, format) ==
    IF j \notin table \/ jobs[j].analysisFile = NoFile
    THEN /\ lastOp' = Op("exportAnalysis", j, NoAnalysis)
         /\ UNCHANGED <<jobs, table, tasks, files, now, configured, exports, input, output>>
    ELSE /\ Room
         /\ tasks' = Spawn([Task("exportAnalysis", j, "read", jobs[j].analysisFile)
                               EXCEPT !.format = format])
         /\ lastOp' = Op("exportAnalysis", j, "pending")
         /\ UNCHANGED <<jobs, table, files, now, configured, exports, input, output>>

(* the report was read: the name is built and fs.writeFile is called, or the format is refused *)
ExportReadOk(task, ts) ==
    LET j == task.job
    IN  /\ task \in Suspended({"exportAnalysis"}) /\ task.pc = "read"
        /\ task.name \in files
        /\ ts \in ClockReads
        /\ now' = ts
        /\ IF Supported(task.format)
           THEN /\ tasks' = Resume(task, [task EXCEPT !.pc = "write",
                                              !.name = ExportName(TopicSlug(jobs[j].config.topic), ts,
                                                                  Extension(task.format))])
                /\ lastOp' = NoOp
           ELSE /\ tasks' = Finish(task)
                /\ lastOp' = Op("exportAnalysis", j, Unsupported)
        /\ UNCHANGED <<jobs, table, files, configured, exports, input, output>>

(* fs.readFile of the report threw ENOENT *)
ExportReadFail(task) ==
    /\ task \in Suspended({"exportAnalysis"}) /\ task.pc = "read"
    /\ task.name \notin files
    /\ tasks' = Finish(task)
    /\ lastOp' = Op("exportAnalysis", task.job, ReadError)
    /\ UNCHANGED <<jobs, table, files, now, configured, exports, input, output>>

(* the directory after fs.writeFile(path, content) *)
Written(dir, name, content) ==
    [f \in DOMAIN dir \cup {name} |-> IF f = name THEN content ELSE dir[f]]

(* fs.writeFile of the export succeeded *)
ExportWriteOk(task) ==
    /\ task \in Suspended({"exportAnalysis"}) /\ task.pc = "write"
    /\ exports' = Written(exports, task.name, task.job)
    /\ tasks' = Finish(task)
    /\ lastOp' = Op("exportAnalysis", task.job, "ok")
    /\ UNCHANGED <<jobs, table, files, now, configured, input, output>>

(* fs.writeFile of the export threw *)
ExportWriteFail(task) ==
    /\ task \in Suspended({"exportAnalysis"}) /\ task.pc = "write"
    /\ tasks' = Finish(task)
    /\ lastOp' = Op("exportAnalysis", task.job, WriteError)
    /\ UNCHANGED <<jobs, table, files, now, configured, exports, input, output>>

Reads ==
    \E task \in BagToSet(tasks) :
        \/ GetReadOk(task)
        \/ GetReadFail(task)
        \/ \E ts \in 0..MaxClock : ExportReadOk(task, ts)
        \/ ExportReadFail(task)
        \/ ExportWriteOk(task)
        \/ ExportWriteFail(task)

(* the routes of a job of one subreddit and one post, with those that read and export *)
(* its artifacts                                                                       *)
StoreBody == [subreddits |-> <<1>>, topic |-> <<Topic>>, postLimit |-> <<1>>,
              commentLimit |-> <<50>>, sort |-> <<"top">>, timeFilter |-> <<"year">>]

StoreNext == \/ PostJobs(StoreBody)
             \/ \E j \in Ids : StartAnalysis(j)
             \/ \E j \in Ids : DeleteJob(j)
             \/ SetApiKey
             \/ Background
             \/ \E j \in Ids : GetScrapedData(j)
             \/ \E j \in Ids : GetAnalysisResult(j)
             \/ \E j \in Ids, format \in Formats : ExportAnalysis(j, format)
             \/ Reads

SpecStore == Init /\ [][StoreNext]_vars

(* ---- exports of several analyzed jobs ---- *)
Topics == {<<>>, Topic, <<"g", " ", " ", "t">>, <<"g", "_", "t">>}

(* a job that POST /jobs created at time 0 and that was scraped and analyzed at time 0 *)
AnalyzedJob(j, topic) ==
    Analyzed(Analyzing(Scraped(Started(NewJob(RouteConfig([StoreBody EXCEPT !.topic = <<topic>>]), 0)),
                               FileName("scrape", j, 0))),
             FileName("analysis", j, 0))

ExportJobs == 1..MaxExportJobs

InitAnalyzed ==
    \E topics \in [ExportJobs -> Topics] :
        /\ jobs = [j \in ExportJobs |-> AnalyzedJob(j, topics[j])]
        /\ table = ExportJobs
        /\ tasks = EmptyBag
        /\ files = {FileName(kind, j, 0) : kind \in {"scrape", "analysis"}, j \in ExportJobs}
        /\ now = 0
        /\ configured = TRUE
        /\ lastOp = NoOp
        /\ exports = <<>>
        /\ input = <<>>
        /\ output = <<>>

ExportNext ==
    \/ \E j \in ExportJobs : ExportAnalysis(j, "json")
    \/ \E task \in BagToSet(tasks), ts \in 0..MaxClock : ExportReadOk(task, ts)
    \/ \E task \in BagToSet(tasks) : ExportWriteOk(task)
    \/ \E task \in BagToSet(tasks) : ExportWriteFail(task)

SpecExport == InitAnalyzed /\ [][ExportNext]_vars

(* ---- createJob on configs with absent fields ---- *)
RawConfigs == [subreddits : {<<>>, <<1>>}, topic : {<<>>, <<Topic>>},
               postLimit : {<<>>, <<0>>, <<2>>}, commentLimit : {<<>>, <<10>>},
               sort : {<<>>, <<"new">>}, timeFilter : {<<>>, <<"week">>}]

CreateNext == \E config \in RawConfigs : Len(jobs) < MaxCreated /\ CreateJob(config)

SpecCreate == Init /\ [][CreateNext]_vars

(* ---- getAllJobs ---- *)
(* Array.from(this.jobs.values()): the jobs of the table in the order they were inserted *)
RECURSIVE Values(_)
Values(ids) ==
    IF ids = {} THEN <<>>
    ELSE LET first == CHOOSE i \in ids : \A k \in ids : i <= k
         IN  <<first>> \o Values(ids \ {first})

(* mutant: the comparator orders the oldest job first *)
Compare_Oldest(a, b) == DateOf(jobs[a].createdAt) - DateOf(jobs[b].createdAt)

(* (a, b) => new Date(b.createdAt) - new Date(a.createdAt) *)
Compare(a, b) == DateOf(jobs[b].createdAt) - DateOf(jobs[a].createdAt)

(* Array.prototype.sort is stable: x goes behind every element that does not sort after it *)
RECURSIVE Insert(_, _)
Insert(x, sorted) ==
    IF sorted = <<>> THEN <<x>>
    ELSE IF Compare(Head(sorted), x) <= 0 THEN <<Head(sorted)>> \o Insert(x, Tail(sorted))
    ELSE <<x>> \o sorted

RECURSIVE Sort(_)
Sort(array) ==
    IF array = <<>> THEN <<>>
    ELSE Insert(array[Len(array)], Sort(SubSeq(array, 1, Len(array) - 1)))

GetAllJobs ==
    /\ output' = Sort(Values(table))
    /\ lastOp' = Op("getAllJobs", 0, "ok")
    /\ UNCHANGED <<jobs, table, tasks, files, now, configured, exports, input>>

ListNext == \/ Len(jobs) < MaxListed /\ CreateJob(StoreBody)
            \/ \E j \in 1..MaxListed : DeleteJob(j)
            \/ GetAllJobs

SpecList == Init /\ [][ListNext]_vars

(* ---- the lexical engine (analysisService) ---- *)
(* the state of a process in which no job was created *)
NoJobs ==
    /\ jobs = <<>> /\ table = {} /\ tasks = EmptyBag /\ files = {} /\ now = 0
    /\ configured = FALSE /\ lastOp = NoOp /\ exports = <<>>

(* array.slice(from, to) *)
Slice(array, from, to) ==
    IF to <= Len(array) THEN SubSeq(array, from + 1, to) ELSE SubSeq(array, from + 1, Len(array))

(* a list of n items, each named by its position *)
Names(n) == [i \in 1..n |-> i]

HiddenRootCause == "The Hidden Root Cause Mechanism"
MissingPiece == "The Missing Piece Mechanism"
ConnectedSymptoms == "The Connected Symptoms Mechanism"

Hypothesis(name, topPainPoints, topSymptoms, keys) ==
    [name |-> name, targetPainPoints |-> Slice(topPainPoints, 0, 3),
     keySymptoms |-> Slice(topSymptoms, 0, keys)]

(* mutant: the third gate opens at five symptoms *)
Connected_AtFive(symptoms) == Len(symptoms) >= 5

(* symptoms.length > 5 *)
Connected(symptoms) == Len(symptoms) > 5

GenerateHypotheses(painPoints, symptoms, mechanismMaterial) ==
    LET topPainPoints == Slice(painPoints, 0, 5)
        topSymptoms == Slice(symptoms, 0, 10)
        topWorkingSolutions == Slice(mechanismMaterial.workingSolutions, 0, 10)
        topRootCauses == Slice(mechanismMaterial.rootCauses, 0, 10)
    IN  (IF Len(topRootCauses) > 0 /\ Len(topWorkingSolutions) > 0
         THEN <<Hypothesis(HiddenRootCause, topPainPoints, topSymptoms, 3)>> ELSE <<>>)
        \o (IF Len(mechanismMaterial.failedSolutions) > 0
            THEN <<Hypothesis(MissingPiece, topPainPoints, topSymptoms, 3)>> ELSE <<>>)
        \o (IF Connected(symptoms)
            THEN <<Hypothesis(ConnectedSymptoms, topPainPoints, topSymptoms, 5)>> ELSE <<>>)

HypothesisInputs ==
    [painPoints : {Names(n) : n \in 0..MaxPainPoints},
     symptoms : {Names(n) : n \in 0..MaxSymptoms},
     mechanismMaterial : [rootCauses : {Names(n) : n \in 0..MaxMaterial},
                          workingSolutions : {Names(n) : n \in 0..MaxMaterial},
                          failedSolutions : {Names(n) : n \in 0..MaxMaterial}]]

InitHypotheses == NoJobs /\ input \in HypothesisInputs /\ output = <<>>

HypothesesNext ==
    /\ output' = GenerateHypotheses(input.painPoints, input.symptoms, input.mechanismMaterial)
    /\ lastOp' = Op("_generateHypotheses", 0, "ok")
    /\ UNCHANGED <<jobs, table, tasks, files, now, configured, exports, input>>

SpecHypotheses == InitHypotheses /\ [][HypothesesNext]_vars

(* ---- _findSymptomClusters ---- *)
(* a post is given by the set of the symptoms of which a variation occurs in its text *)
(* symptoms.filter(...).map(s => s.name).slice(0, 5) *)
PresentSymptoms(post, symptoms) ==
    Slice(SelectSeq(symptoms, LAMBDA name : name \in post), 0, 5)

(* presentSymptoms.sort(): the names in ascending order *)
RECURSIVE SortNames(_)
SortNames(names) ==
    IF names = <<>> THEN <<>>
    ELSE LET least == CHOOSE i \in DOMAIN names : \A k \in DOMAIN names : names[i] <= names[k]
         IN  <<names[least]>> \o SortNames(SubSeq(names, 1, least - 1) \o SubSeq(names, least + 1, Len(names)))

(* clusterMap after the loop over the posts: one entry per key (the sorted names of a   *)
(* post with at least 2 present symptoms), in the order of the first post with that     *)
(* key, counting the posts with that key                                                *)
ClusterMap(posts, symptoms) ==
    LET Key(i) == SortNames(PresentSymptoms(posts[i], symptoms))
        counted == {i \in DOMAIN posts : Len(Key(i)) >= 2}
        first == {i \in counted : \A k \in counted : k < i => Key(k) # Key(i)}
        Nth(n) == CHOOSE i \in first : Cardinality({k \in first : k < i}) = n - 1
    IN  [n \in 1..Cardinality(first) |->
            [symptoms |-> Key(Nth(n)),
             frequency |-> Cardinality({k \in counted : Key(k) = Key(Nth(n))})]]

(* mutant: the filter keeps the clusters seen once *)
Frequent_Once(cluster) == cluster.frequency >= 1

(* c => c.frequency >= 2 *)
Frequent(cluster) == cluster.frequency >= 2

(* .sort((a, b) => b.frequency - a.frequency), a stable sort *)
RECURSIVE InsertCluster(_, _)
InsertCluster(cluster, sorted) ==
    IF sorted = <<>> THEN <<cluster>>
    ELSE IF cluster.frequency - Head(sorted).frequency <= 0
         THEN <<Head(sorted)>> \o InsertCluster(cluster, Tail(sorted))
         ELSE <<cluster>> \o sorted

RECURSIVE SortClusters(_)
SortClusters(clusters) ==
    IF clusters = <<>> THEN <<>>
    ELSE InsertCluster(clusters[Len(clusters)], SortClusters(SubSeq(clusters, 1, Len(clusters) - 1)))

FindSymptomClusters(posts, symptoms) ==
    Slice(SortClusters(SelectSeq(ClusterMap(posts, symptoms), Frequent)), 0, 20)

(* the corpora: every list of at most MaxPosts posts over three symptoms, and corpora  *)
(* of many posts in which k pairs of symptoms recur, with or without two posts that     *)
(* mention every symptom                                                                *)
RECURSIVE Flat(_)
Flat(lists) == IF lists = <<>> THEN <<>> ELSE Head(lists) \o Flat(Tail(lists))

Repeated(post, times) == [i \in 1..times |-> post]

Pairs == {pair \in SUBSET (1..MaxSymptoms) : Cardinality(pair) = 2}

Min2(pair) == CHOOSE i \in pair : \A k \in pair : i <= k
Max2(pair) == CHOOSE i \in pair : \A k \in pair : i >= k

RECURSIVE Listed2(_)
Listed2(set) ==
    IF set = {} THEN <<>>
    ELSE LET first == CHOOSE pair \in set :
                         \A other \in set :
                            \/ Min2(pair) < Min2(other)
                            \/ Min2(pair) = Min2(other) /\ Max2(pair) <= Max2(other)
         IN  <<first>> \o Listed2(set \ {first})

SmallCorpora ==
    UNION {[1..n -> SUBSET (1..3)] : n \in 0..MaxPosts}

LargeCorpus(k, wide, times) ==
    (IF wide THEN Repeated(1..MaxSymptoms, 2) ELSE <<>>)
    \o Flat([i \in 1..k |-> Repeated(Listed2(Pairs)[i], times + (i % 2))])

ClusterInputs ==
    {[posts |-> posts, symptoms |-> symptoms] :
        posts \in SmallCorpora, symptoms \in {<<1, 2, 3>>, <<3, 1, 2>>}}
    \cup {[posts |-> LargeCorpus(k, wide, times), symptoms |-> Names(MaxSymptoms)] :
             k \in 0..Cardinality(Pairs), wide \in BOOLEAN, times \in 1..2}

InitClusters == NoJobs /\ input \in ClusterInputs /\ output = <<>>

ClustersNext ==
    /\ output' = FindSymptomClusters(input.posts, input.symptoms)
    /\ lastOp' = Op("_findSymptomClusters", 0, "ok")
    /\ UNCHANGED <<jobs, table, tasks, files, now, configured, exports, input>>

SpecClusters == InitClusters /\ [][ClustersNext]_vars

(* ---- _dedupeAndRank ---- *)
(* String.prototype.toLowerCase on the letters of the model: A, B and G are its capitals *)
ToLowerCase(text) ==
    [i \in DOMAIN text |-> CASE text[i] = "A" -> "a" [] text[i] = "B" -> "b" [] text[i] = "G" -> "g"
                              [] OTHER -> text[i]]

Reversed(text) == [i \in DOMAIN text |-> text[Len(text) + 1 - i]]

(* String.prototype.trim *)
Trim(text) == Reversed(SkipSpace(Reversed(SkipSpace(text))))

(* (item[keyField] || '').toLowerCase().trim() *)
DedupeKey(item) == Trim(ToLowerCase(item.text))

(* { ...item, frequency: 0, sources: [] } after the increments and pushes of the loop *)
Ranked(item, frequency, sources) ==
    [text |-> item.text, source |-> item.source, frequency |-> frequency,
     sources |-> Slice(sources, 0, 3)]

(* .sort((a, b) => b.frequency - a.frequency), a stable sort *)
RECURSIVE InsertRanked(_, _)
InsertRanked(item, sorted) ==
    IF sorted = <<>> THEN <<item>>
    ELSE IF item.frequency - Head(sorted).frequency <= 0
         THEN <<Head(sorted)>> \o InsertRanked(item, Tail(sorted))
         ELSE <<item>> \o sorted

RECURSIVE SortRanked(_)
SortRanked(items) ==
    IF items = <<>> THEN <<>>
    ELSE InsertRanked(items[Len(items)], SortRanked(SubSeq(items, 1, Len(items) - 1)))

(* the map after the loop: one entry per key of at least 5 characters, in the order of  *)
(* the first item with that key, which it copies; it counts the items with the key and  *)
(* keeps the sources of the first three                                                 *)
DedupeMap(items) ==
    LET Key(i) == DedupeKey(items[i])
        kept == {i \in DOMAIN items : Len(Key(i)) >= 5}
        first == {i \in kept : \A k \in kept : k < i => Key(k) # Key(i)}
        Nth(n) == CHOOSE i \in first : Cardinality({k \in first : k < i}) = n - 1
        Same(i) == SelectSeq([k \in DOMAIN items |-> k], LAMBDA k : k \in kept /\ Key(k) = Key(i))
    IN  [n \in 1..Cardinality(first) |->
            Ranked(items[Nth(n)], Len(Same(Nth(n))),
                   [m \in DOMAIN Same(Nth(n)) |-> items[Same(Nth(n))[m]].source])]

DedupeAndRank(items) == Slice(SortRanked(DedupeMap(items)), 0, 20)

(* the texts a pattern of _extractMechanismMaterial can capture, and the posts they are from *)
Texts == {<<>>, <<"a", "b", "a", "b">>, <<"a", "b", "a", "b", "a">>, <<"A", "b", "a", "B", "a">>,
          <<" ", "a", "b", "a", "b", "a", " ">>, <<"b", "a", "b", "a", "b">>}
Urls == {"url1", "url2"}

DedupeInputs ==
    UNION {[1..n -> [text : Texts, source : Urls]] : n \in 0..MaxItems}

InitDedupe == NoJobs /\ input \in DedupeInputs /\ output = <<>>

(* _dedupeAndRank(items, 'text') *)
DedupeFirst ==
    /\ lastOp = NoOp
    /\ output' = DedupeAndRank(input)
    /\ lastOp' = Op("_dedupeAndRank", 0, "first")
    /\ UNCHANGED <<jobs, table, tasks, files, now, configured, exports, input>>

(* _dedupeAndRank applied to the list it returned *)
DedupeAgain ==
    /\ lastOp = Op("_dedupeAndRank", 0, "first")
    /\ input' = output
    /\ output' = DedupeAndRank(output)
    /\ lastOp' = Op("_dedupeAndRank", 0, "again")
    /\ UNCHANGED <<jobs, table, tasks, files, now, configured, exports>>

DedupeNext == DedupeFirst \/ DedupeAgain

SpecDedupe == InitDedupe /\ [][DedupeNext]_vars

(* ---- _extractPainPoints ---- *)
(* A post is given by what the patterns find in its text: indicators, the names that     *)
(* _findPainIndicators returns for the combined text of the post and its comments, one   *)
(* per match and in the order of the matches; charge, the value _calculateEmotionalCharge *)
(* returns for that text (15 indicators of 1 and 9 patterns of 2: at most 33); symptoms, *)
(* the symptoms of which a term occurs in it. Its fields comments and score are <<>>     *)
(* when absent and <<value>> when given. Scores are kept in thousandths, rounded scores  *)
(* in tenths.                                                                            *)
Min(a, b) == IF a <= b THEN a ELSE b

(* Math.log10(n + 1) * 5 in thousandths, for n = 1..99 *)
Log10Times5 ==
    <<
      1505, 2385, 3010, 3494, 3890, 4225, 4515, 4771, 5000, 5206, 5395, 5569,
      5730, 5880, 6020, 6152, 6276, 6393, 6505, 6611, 6712, 6808, 6901, 6989,
      7074, 7156, 7235, 7311, 7385, 7456, 7525, 7592, 7657, 7720, 7781, 7841,
      7898, 7955, 8010, 8063, 8116, 8167, 8217, 8266, 8313, 8360, 8406, 8450,
      8494, 8537, 8580, 8621, 8661, 8701, 8740, 8779, 8817, 8854, 8890, 8926,
      8961, 8996, 9030, 9064, 9097, 9130, 9162, 9194, 9225, 9256, 9286, 9316,
      9346, 9375, 9404, 9432, 9460, 9488, 9515, 9542, 9569, 9595, 9621, 9647,
      9672, 9697, 9722, 9746, 9771, 9795, 9818, 9842, 9865, 9888, 9911, 9933,
      9956, 9978, 10000
    >>

(* Math.min(10, Math.log10(pp.threadCount + 1) * 5) *)
VolumeScore(threadCount) ==
    IF threadCount >= Len(Log10Times5) THEN 10000 ELSE Min(10000, Log10Times5[threadCount])

(* mutant: the emotional score is the plain average, without the cap *)
EmotionalScore_Uncapped(emotionalCharge, threadCount) == (1000 * emotionalCharge) \div threadCount

(* Math.min(10, pp.emotionalCharge / pp.threadCount) *)
EmotionalScore(emotionalCharge, threadCount) ==
    Min(10000, (1000 * emotionalCharge) \div threadCount)

(* (volumeScore * 0.4) + (emotionalScore * 0.6), in ten-thousandths *)
PriorityScore(volumeScore, emotionalScore) == 4 * volumeScore + 6 * emotionalScore

(* Math.round(x * 10) / 10 of a value given in units of 1/scale, in tenths *)
RoundTenths(x, scale) == (2 * 10 * x + scale) \div (2 * scale)

(* a number that may be NaN: <<>> is NaN (and undefined), <<n>> is the number n *)
Plus(a, b) == IF a = <<>> \/ b = <<>> THEN <<>> ELSE <<a[1] + b[1]>>
Times(n, a) == IF a = <<>> THEN <<>> ELSE <<n * a[1]>>
(* Math.round(a / n) for n >= 1 and a >= 0 *)
RoundedQuotient(a, n) == IF a = <<>> THEN <<>> ELSE <<(2 * a[1] + n) \div (2 * n)>>

(* the number of indicators of a post with this name *)
Matches(post, name) == Len(SelectSeq(post.indicators, LAMBDA found : found = name))

(* pp.threadCount++ runs once for every indicator of the post with the name *)
Counted(post, name) == Matches(post, name)

(* pp.threadCount and pp.emotionalCharge after the first n posts *)
RECURSIVE ThreadCount(_, _, _)
ThreadCount(posts, name, n) ==
    IF n = 0 THEN 0 ELSE ThreadCount(posts, name, n - 1) + Counted(posts[n], name)

RECURSIVE EmotionalCharge(_, _, _)
EmotionalCharge(posts, name, n) ==
    IF n = 0 THEN 0
    ELSE EmotionalCharge(posts, name, n - 1) + Counted(posts[n], name) * posts[n].charge

RECURSIVE SumScore(_, _, _)
SumScore(posts, name, n) ==
    IF n = 0 THEN <<0>>
    ELSE Plus(SumScore(posts, name, n - 1), Times(Matches(posts[n], name), posts[n].score))

(* the entry of painPointMap for a name after the loop over the posts, with its scores *)
PainPoint(posts, name) ==
    LET threadCount == ThreadCount(posts, name, Len(posts))
        emotionalCharge == EmotionalCharge(posts, name, Len(posts))
        totalScore == SumScore(posts, name, Len(posts))
        volumeScore == VolumeScore(threadCount)
        emotionalScore == EmotionalScore(emotionalCharge, threadCount)
    IN  [name |-> name, threadCount |-> threadCount, totalScore |-> totalScore,
         emotionalCharge |-> emotionalCharge,
         volumeScore |-> RoundTenths(volumeScore, 1000),
         emotionalScore |-> RoundTenths(emotionalScore, 1000),
         priorityScore |-> RoundTenths(PriorityScore(volumeScore, emotionalScore), 10000),
         avgScore |-> RoundedQuotient(totalScore, threadCount)]

(* the keys of painPointMap in the order they were set: by the first post, and in that   *)
(* post the first indicator, with the name                                               *)
Distinct(names) ==
    LET first == SelectSeq([i \in DOMAIN names |-> i],
                           LAMBDA i : \A k \in 1..(i - 1) : names[k] # names[i])
    IN  [n \in DOMAIN first |-> names[first[n]]]

RECURSIVE PainPointNames(_)
PainPointNames(posts) ==
    IF posts = <<>> THEN <<>>
    ELSE LET before == PainPointNames(SubSeq(posts, 1, Len(posts) - 1))
             new == SelectSeq(Distinct(posts[Len(posts)].indicators),
                              LAMBDA name : \A i \in DOMAIN before : before[i] # name)
         IN  before \o new

(* painPoints.sort((a, b) => b.priorityScore - a.priorityScore), a stable sort *)
RECURSIVE InsertPainPoint(_, _)
InsertPainPoint(painPoint, sorted) ==
    IF sorted = <<>> THEN <<painPoint>>
    ELSE IF painPoint.priorityScore - Head(sorted).priorityScore <= 0
         THEN <<Head(sorted)>> \o InsertPainPoint(painPoint, Tail(sorted))
         ELSE <<painPoint>> \o sorted

RECURSIVE SortPainPoints(_)
SortPainPoints(painPoints) ==
    IF painPoints = <<>> THEN <<>>
    ELSE InsertPainPoint(painPoints[Len(painPoints)],
                         SortPainPoints(SubSeq(painPoints, 1, Len(painPoints) - 1)))

ExtractPainPoints(posts) ==
    SortPainPoints([n \in DOMAIN PainPointNames(posts) |-> PainPoint(posts, PainPointNames(posts)[n])])

(* the posts: no, one, two or very many matches of one or two pain point names, in a    *)
(* calm, a charged or a most charged text                                               *)
Indicators == {<<>>, <<"Bloating">>, <<"Bloating", "Bloating">>, <<"IBS", "Bloating">>,
               Repeated("IBS", 99)}
Charges == {0, 4, 33}

PainPosts == [url : {"url1"}, comments : {<< <<>> >>}, score : {<<>>, <<7>>},
              indicators : Indicators, charge : Charges, symptoms : {{}}]

PainInputs == UNION {[1..n -> PainPosts] : n \in 0..MaxPosts}

InitPainPoints == NoJobs /\ input \in PainInputs /\ output = <<>>

PainPointsNext ==
    /\ output' = ExtractPainPoints(input)
    /\ lastOp' = Op("_extractPainPoints", 0, "ok")
    /\ UNCHANGED <<jobs, table, tasks, files, now, configured, exports, input>>

SpecPainPoints == InitPainPoints /\ [][PainPointsNext]_vars

(* ---- _extractSymptoms ---- *)
(* the symptoms are named by their rank in alphabetical order; the dictionary of         *)
(* _findSymptoms lists them in its own order (Bloating, Constipation, Diarrhea,         *)
(* Abdominal Pain, Cramping, Nausea, Gas/Flatulence)                                    *)
Dictionary == <<2, 3, 5, 1, 4, 7, 6>>

(* _findSymptoms(allText): the symptoms of the dictionary of which a term is in the text *)
FindSymptoms(post) == SelectSeq(Dictionary, LAMBDA name : name \in post.symptoms)

(* the keys of symptomMap in the order they were set *)
RECURSIVE SymptomNames(_)
SymptomNames(posts) ==
    IF posts = <<>> THEN <<>>
    ELSE LET before == SymptomNames(SubSeq(posts, 1, Len(posts) - 1))
             new == SelectSeq(FindSymptoms(posts[Len(posts)]),
                              LAMBDA name : \A i \in DOMAIN before : before[i] # name)
         IN  before \o new

(* .sort((a, b) => b.frequency - a.frequency), a stable sort *)
RECURSIVE InsertSymptom(_, _)
InsertSymptom(symptom, sorted) ==
    IF sorted = <<>> THEN <<symptom>>
    ELSE IF symptom.frequency - Head(sorted).frequency <= 0
         THEN <<Head(sorted)>> \o InsertSymptom(symptom, Tail(sorted))
         ELSE <<symptom>> \o sorted

RECURSIVE SortSymptoms(_)
SortSymptoms(symptoms) ==
    IF symptoms = <<>> THEN <<>>
    ELSE InsertSymptom(symptoms[Len(symptoms)], SortSymptoms(SubSeq(symptoms, 1, Len(symptoms) - 1)))

ExtractSymptoms(posts) ==
    SortSymptoms([n \in DOMAIN SymptomNames(posts) |->
                     [name |-> SymptomNames(posts)[n],
                      frequency |-> Cardinality({i \in DOMAIN posts :
                                                    SymptomNames(posts)[n] \in posts[i].symptoms})]])

(* ---- _extractMechanismMaterial ---- *)
(* a post carries the texts its root cause, failed solution and working solution        *)
(* patterns capture                                                                     *)
Captured(posts, field) ==
    Flat([i \in DOMAIN posts |->
             [m \in DOMAIN posts[i][field] |-> [text |-> posts[i][field][m], source |-> posts[i].url]]])

ExtractMechanismMaterial(posts) ==
    [rootCauses |-> DedupeAndRank(Captured(posts, "rootCauses")),
     failedSolutions |-> DedupeAndRank(Captured(posts, "failedSolutions")),
     workingSolutions |-> DedupeAndRank(Captured(posts, "workingSolutions"))]

(* ---- analyzeData ---- *)
(* comment.replies || [] *)
OrEmpty(field) == IF field = <<>> THEN <<>> ELSE field[1]

(* the content items of a post whose comments are given *)
PostContent(post) ==
    <<[type |-> "post", url |-> post.url]>>
    \o Flat([c \in DOMAIN post.comments[1] |->
                <<[type |-> "comment", url |-> post.url]>>
                \o [r \in DOMAIN OrEmpty(post.comments[1][c].replies) |->
                       [type |-> "reply", url |-> post.url]]])

ExtractAllContent(posts) == Flat([i \in DOMAIN posts |-> PostContent(posts[i])])

NotIterable == "post.comments is not iterable"

(* mutant: a corpus without posts is refused *)
Iterable_NonEmpty(posts) == posts # <<>> /\ \A i \in DOMAIN posts : posts[i].comments # <<>>

(* for (const comment of post.comments) runs for every post: it throws a TypeError when  *)
(* the field is absent                                                                   *)
Iterable(posts) == \A i \in DOMAIN posts : posts[i].comments # <<>>

(* painPoints[0]?.name || 'N/A' *)
TopName(list) == IF list = <<>> THEN "N/A" ELSE list[1].name

NamesOf(list) == [i \in DOMAIN list |-> list[i].name]

(* _compileReport: the summary, the hypotheses and the source log of the report *)
CompileReport(painPoints, symptoms, symptomClusters, hypotheses, sourceLog) ==
    [threw |-> FALSE,
     summary |-> [totalPainPoints |-> Len(painPoints), totalSymptoms |-> Len(symptoms),
                  totalClusters |-> Len(symptomClusters),
                  topPainPoint |-> TopName(painPoints), topSymptom |-> TopName(symptoms),
                  hypothesesGenerated |-> Len(hypotheses)],
     painPoints |-> painPoints,
     mechanismHypotheses |-> hypotheses,
     fullLog |-> Len(sourceLog)]

Thrown(message) == [threw |-> TRUE, message |-> message]

(* analyzeData(scrapedData): the report, or the error it is rejected with *)
AnalyzeData(scrapedData) ==
    LET posts == scrapedData.posts
        painPoints == ExtractPainPoints(posts)
        symptoms == ExtractSymptoms(posts)
        symptomClusters == FindSymptomClusters([i \in DOMAIN posts |-> posts[i].symptoms],
                                               NamesOf(symptoms))
        mechanismMaterial == ExtractMechanismMaterial(posts)
        hypotheses == GenerateHypotheses(NamesOf(painPoints), NamesOf(symptoms), mechanismMaterial)
    IN  IF ~Iterable(posts) THEN Thrown(NotIterable)
        ELSE CompileReport(painPoints, symptoms, symptomClusters, hypotheses, scrapedData.sourceLog)

(* ---- the analysis task of the JobManager that runs the lexical engine ---- *)
(* the corpora: at most MaxCorpus posts, with or without their optional fields *)
Cause == <<"a", "b", "a", "b", "a">>
Material == {[rootCauses |-> <<>>, workingSolutions |-> <<>>, failedSolutions |-> <<>>],
             [rootCauses |-> <<Cause>>, workingSolutions |-> <<Cause>>, failedSolutions |-> <<>>],
             [rootCauses |-> <<>>, workingSolutions |-> <<>>, failedSolutions |-> <<Cause, Cause>>]}

Comments == {<<>>, << <<>> >>, << <<[replies |-> <<>>]>> >>,
             << <<[replies |-> << <<"reply">> >>]>> >>}

CorpusPosts ==
    {[url |-> "url1", comments |-> comments, score |-> score, indicators |-> indicators,
      charge |-> 4, symptoms |-> symptoms, rootCauses |-> material.rootCauses,
      workingSolutions |-> material.workingSolutions, failedSolutions |-> material.failedSolutions] :
        comments \in Comments, score \in {<<>>, <<7>>}, indicators \in {<<>>, <<"Bloating">>},
        symptoms \in {{}, {1, 2}, 1..7}, material \in Material}

Corpora ==
    {[posts |-> posts, sourceLog |-> [i \in DOMAIN posts |-> posts[i].url]] :
        posts \in UNION {[1..n -> CorpusPosts] : n \in 0..MaxCorpus}}

(* a job that is analyzing: its task awaits the read of the corpus file *)
InitAnalyze ==
    /\ jobs = <<Analyzing(Scraped(Started(NewJob(RouteConfig(StoreBody), 0)), FileName("scrape", 1, 0)))>>
    /\ table = {1}
    /\ tasks = SetToBag({Task("analysis", 1, "lexical", FileName("scrape", 1, 0))})
    /\ files = {FileName("scrape", 1, 0)}
    /\ now = 0
    /\ configured = FALSE
    /\ lastOp = NoOp
    /\ exports = <<>>
    /\ input \in Corpora
    /\ output = <<>>

(* fs.readFile returned the corpus; analyzeData runs to its end and either the report is *)
(* handed to fs.writeFile or the catch block and the .catch handler run                  *)
LexicalReadOk(task, ts) ==
    LET j == task.job
        report == AnalyzeData(input)
    IN  /\ task \in Suspended({"analysis"}) /\ task.pc = "lexical"
        /\ task.name \in files
        /\ ts \in ClockReads
        /\ output' = report
        /\ IF report.threw
           THEN /\ jobs' = [jobs EXCEPT ![j] = AnalysisFailed(AnalysisFailed(@, report.message),
                                                              report.message)]
                /\ tasks' = Finish(task)
                /\ lastOp' = Op("analysisTask", j, report.message)
                /\ UNCHANGED now
           ELSE /\ jobs' = [jobs EXCEPT ![j] = AnalysisProgress(@, "complete", 100)]
                /\ tasks' = Resume(task, [task EXCEPT !.pc = "write",
                                                      !.name = FileName("analysis", j, ts)])
                /\ lastOp' = Op("analyzeData", j, "ok")
                /\ now' = ts
        /\ UNCHANGED <<table, files, configured, exports, input>>

(* fs.readFile of the corpus threw *)
LexicalReadFail(task) ==
    /\ task \in Suspended({"analysis"}) /\ task.pc = "lexical"
    /\ AnalysisThrows(task, ReadError)

AnalyzeNext ==
    \E task \in BagToSet(tasks) :
        \/ \E ts \in 0..MaxClock : LexicalReadOk(task, ts)
        \/ LexicalReadFail(task)
        \/ AnalysisWriteOk(task)
        \/ AnalysisWriteFail(task)

SpecAnalyze == InitAnalyze /\ [][AnalyzeNext]_vars

(* ---- discoverSubreddits ---- *)
(* text.includes(part) *)
Includes(text, part) ==
    \E i \in 0..(Len(text) - Len(part)) : SubSeq(text, i + 1, i + Len(part)) = part

(* text.replace(/\s+/g, '') *)
NoSpaces(text) == SelectSeq(text, LAMBDA c : c # " ")

(* text.split(/\s+/) *)
RECURSIVE Split(_)
Split(text) ==
    IF \A i \in DOMAIN text : text[i] # " " THEN <<text>>
    ELSE LET space == CHOOSE i \in DOMAIN text : text[i] = " " /\ \A k \in 1..(i - 1) : text[k] # " "
         IN  <<SubSeq(text, 1, space - 1)>> \o Split(SkipSpace(SubSeq(text, space, Len(text))))

HealthRelatedTerms ==
    <<<<"i", "b", "s">>,
      <<"s", "i", "b", "o">>,
      <<"m", "i", "c", "r", "o", "b", "i", "o", "m", "e">>,
      <<"p", "r", "o", "b", "i", "o", "t", "i", "c">>,
      <<"d", "i", "g", "e", "s", "t">>,
      <<"f", "o", "d", "m", "a", "p">>,
      <<"b", "l", "o", "a", "t">>,
      <<"c", "o", "n", "s", "t", "i", "p">>,
      <<"n", "u", "t", "r", "i", "t", "i">>>>

(* _calculateRelevance(topic, subreddit) *)
CalculateRelevance(topic, subreddit) ==
    LET topicLower == ToLowerCase(topic)
        topicWords == Split(topicLower)
        topicNoSpaces == NoSpaces(topicLower)
        nameLower == ToLowerCase(subreddit.display_name)
        titleLower == ToLowerCase(subreddit.title)
        descLower == ToLowerCase(subreddit.public_description)
        match == IF nameLower = topicNoSpaces THEN 80
                 ELSE IF Includes(nameLower, topicNoSpaces) THEN 60
                 ELSE IF \E w \in DOMAIN topicWords :
                            Len(topicWords[w]) > 3 /\ Includes(nameLower, topicWords[w]) THEN 40
                 ELSE IF Includes(titleLower, topicLower) THEN 30
                 ELSE IF Includes(descLower, topicLower) THEN 20
                 ELSE IF \E w \in DOMAIN topicWords :
                            Len(topicWords[w]) > 3 /\ Includes(descLower, topicWords[w]) THEN 10
                 ELSE 0
        health == IF \E t \in DOMAIN HealthRelatedTerms :
                         \/ Includes(nameLower, HealthRelatedTerms[t])
                         \/ Includes(descLower, HealthRelatedTerms[t])
                  THEN 25 ELSE 0
        small == IF subreddit.subscribers > 10000 /\ subreddit.subscribers < 500000 THEN 10
                 ELSE IF subreddit.subscribers > 1000 THEN 5 ELSE 0
    IN  Min(100, 20 + match + health + small)

(* the relevance of a subreddit found through the posts of the search *)
PostRelevance(topic, name, count) ==
    LET topicLower == ToLowerCase(topic)
        topicNoSpaces == NoSpaces(topicLower)
        topicWords == SelectSeq(Split(topicLower), LAMBDA w : Len(w) > 3)
        nameLower == ToLowerCase(name)
    IN  IF nameLower = topicNoSpaces THEN 100
        ELSE IF Includes(nameLower, topicNoSpaces) THEN 80
        ELSE IF \E w \in DOMAIN topicWords : Includes(nameLower, topicWords[w]) THEN 60
        ELSE Min(50, 20 + count * 5)

(* the subscriber counts of the model and Math.log10 of them, in thousandths *)
Subscribers == {0, 900, 50000, 10000000}
Log10(s) == CASE s = 900 -> 2954 [] s = 50000 -> 4698 [] s = 10000000 -> 7000

(* r.subscribers > 0 ? Math.min(100, Math.log10(r.subscribers) * 15) : 0, in thousandths *)
VolumeNorm(subscribers) == IF subscribers > 0 THEN Min(100000, Log10(subscribers) * 15) ELSE 0

(* mutant: the weights of relevance and volume are exchanged *)
CombinedScore_VolumeWeighted(relevanceScore, volumeNorm) == 3000 * relevanceScore + 7 * volumeNorm

(* (r.relevanceScore * 0.7) + (volumeNorm * 0.3), in ten-thousandths *)
CombinedScore(relevanceScore, volumeNorm) == 7000 * relevanceScore + 3 * volumeNorm

Found(name, subscribers, relevanceScore) ==
    [name |-> name, subscribers |-> subscribers, relevanceScore |-> relevanceScore,
     combinedScore |-> CombinedScore(relevanceScore, VolumeNorm(subscribers))]

(* the positions of a list of names at which a name (in lower case) is seen first *)
FirstByName(names) ==
    SelectSeq([i \in DOMAIN names |-> i],
              LAMBDA i : \A k \in 1..(i - 1) : ToLowerCase(names[k]) # ToLowerCase(names[i]))

(* strategy 1: the subreddits of the search, each name once; none when the request threw *)
SearchResults(topic, response) ==
    LET children == OrEmpty(response)
        first == FirstByName([i \in DOMAIN children |-> children[i].display_name])
    IN  [n \in DOMAIN first |->
            Found(children[first[n]].display_name, children[first[n]].subscribers,
                  CalculateRelevance(topic, children[first[n]]))]

(* strategy 2: subCounts has one key per subreddit name of the posts, with the           *)
(* subscribers of its first post and the number of its posts; a name is added when no    *)
(* result has it (in lower case)                                                         *)
PostResults(topic, response, seen) ==
    LET children == OrEmpty(response)
        keys == SelectSeq([i \in DOMAIN children |-> i],
                          LAMBDA i : \A k \in 1..(i - 1) : children[k].subreddit # children[i].subreddit)
        Count(name) == Cardinality({i \in DOMAIN children : children[i].subreddit = name})
        entries == [n \in DOMAIN keys |-> children[keys[n]]]
        new == SelectSeq([n \in DOMAIN entries |-> n],
                         LAMBDA n : /\ \A k \in DOMAIN seen :
                                          ToLowerCase(seen[k].name) # ToLowerCase(entries[n].subreddit)
                                    /\ \A k \in 1..(n - 1) :
                                          ToLowerCase(entries[k].subreddit) # ToLowerCase(entries[n].subreddit))
    IN  [n \in DOMAIN new |->
            Found(entries[new[n]].subreddit, entries[new[n]].subreddit_subscribers,
                  PostRelevance(topic, entries[new[n]].subreddit, Count(entries[new[n]].subreddit)))]

(* results.sort((a, b) => b.combinedScore - a.combinedScore), a stable sort *)
RECURSIVE InsertFound(_, _)
InsertFound(r, sorted) ==
    IF sorted = <<>> THEN <<r>>
    ELSE IF r.combinedScore - Head(sorted).combinedScore <= 0
         THEN <<Head(sorted)>> \o InsertFound(r, Tail(sorted))
         ELSE <<r>> \o sorted

RECURSIVE SortFound(_)
SortFound(results) ==
    IF results = <<>> THEN <<>>
    ELSE InsertFound(results[Len(results)], SortFound(SubSeq(results, 1, Len(results) - 1)))

(* results.map((r, i) => ({ ...r, rank: i + 1 })) *)
Ranks(results) ==
    [i \in DOMAIN results |->
        [name |-> results[i].name, subscribers |-> results[i].subscribers,
         relevanceScore |-> results[i].relevanceScore,
         combinedScore |-> results[i].combinedScore, rank |-> i]]

DiscoverSubreddits(topic, searched, posted) ==
    LET results == SearchResults(topic, searched)
    IN  Ranks(SortFound(results \o PostResults(topic, posted, results)))

(* the answers of the two requests: <<>> when the request threw, <<children>> otherwise *)
DiscoverTopic == <<"g", "u", "t", "s", " ", "a", "t">>
Exact == <<"g", "u", "t", "s", "a", "t">>
Generic == <<"a", "l", "l">>

SearchSubs ==
    {[display_name |-> Exact, title |-> <<>>, public_description |-> <<>>, subscribers |-> 0],
     [display_name |-> Exact, title |-> <<>>, public_description |-> <<>>, subscribers |-> 50000],
     [display_name |-> Generic, title |-> DiscoverTopic, public_description |-> <<>>, subscribers |-> 10000000],
     [display_name |-> Generic, title |-> <<>>, public_description |-> <<"p", "r", "o", "b", "i", "o", "t", "i", "c">>, subscribers |-> 900],
     [display_name |-> <<"x", "G", "u", "t", "s">>, title |-> <<>>, public_description |-> <<>>, subscribers |-> 900],
     [display_name |-> <<"i", "b", "s">>, title |-> <<>>, public_description |-> DiscoverTopic, subscribers |-> 50000]}

PostNames == {Exact, <<"G", "u", "t", "s", "A", "t">>, Generic, <<"g", "u", "t", "s", "a", "t", "x">>, <<"x", "g", "u", "t", "s">>}

(* the posts of a search in which each of a list of subreddits has 1 or 7 posts *)
PostGroups == [subreddit : PostNames, subreddit_subscribers : {0, 10000000}, count : {1, 7}]

Posted(groups) ==
    Flat([g \in DOMAIN groups |->
             Repeated([subreddit |-> groups[g].subreddit,
                       subreddit_subscribers |-> groups[g].subreddit_subscribers], groups[g].count)])

Responses(items) == {<<>>} \cup {<<list>> : list \in UNION {[1..n -> items] : n \in 0..MaxFound}}

DiscoverInputs ==
    {[topic |-> DiscoverTopic, searched |-> searched,
      posted |-> IF posted = <<>> THEN <<>> ELSE <<Posted(posted[1])>>] :
        searched \in Responses(SearchSubs), posted \in Responses(PostGroups)}

InitDiscover == NoJobs /\ input \in DiscoverInputs /\ output = <<>>

DiscoverNext ==
    /\ output' = DiscoverSubreddits(input.topic, input.searched, input.posted)
    /\ lastOp' = Op("discoverSubreddits", 0, "ok")
    /\ UNCHANGED <<jobs, table, tasks, files, now, configured, exports, input>>

SpecDiscover == InitDiscover /\ [][DiscoverNext]_vars

(* ---- the responses of the routes ---- *)
(* res.status(status).json({ error: message }), and a response without an error *)
ErrorResponse(status, message) == [status |-> status, error |-> <<message>>]
OkResponse(status) == [status |-> status, error |-> <<>>]

(* POST /jobs *)
JobsRoute(res) ==
    IF res = "400" THEN ErrorResponse(400, "At least one subreddit required") ELSE OkResponse(201)

(* POST /jobs/:id/analyze: whatever startAnalysis throws is answered with 400 *)
AnalyzeRoute(res) == IF res = "ok" THEN OkResponse(200) ELSE ErrorResponse(400, res)

(* GET /jobs/:id/data and GET /jobs/:id/analysis *)
ArtifactRoute(op, res) ==
    IF res = "data" THEN OkResponse(200)
    ELSE IF res = "null"
         THEN ErrorResponse(404, IF op = "getScrapedData" THEN "Data not found" ELSE "Analysis not found")
         ELSE ErrorResponse(500, res)

(* GET /jobs/:id/export: whatever exportAnalysis throws is answered with 500 *)
ExportRoute(res) == IF res = "ok" THEN OkResponse(200) ELSE ErrorResponse(500, res)

(* DELETE /jobs/:id *)
DeleteRoute(res) == IF res = "true" THEN OkResponse(200) ELSE ErrorResponse(404, JobNotFound)

(* the response the route sends when the call it made has returned or thrown *)
Answered == lastOp.op \in {"postJobs", "startAnalysis", "deleteJob", "exportAnalysis"} \cup Getters
                /\ lastOp.res # "pending"

Response ==
    CASE lastOp.op = "postJobs" -> JobsRoute(lastOp.res)
      [] lastOp.op = "startAnalysis" -> AnalyzeRoute(lastOp.res)
      [] lastOp.op \in Getters -> ArtifactRoute(lastOp.op, lastOp.res)
      [] lastOp.op = "exportAnalysis" -> ExportRoute(lastOp.res)
      [] lastOp.op = "deleteJob" -> DeleteRoute(lastOp.res)

(* ======================= the claims ======================= *)
Created == DOMAIN jobs
Called(op, j) == lastOp'.op = op /\ lastOp'.id = j
Listed == {<<"pending", "running">>, <<"running", "scraped">>, <<"running", "failed">>,
           <<"scraped", "analyzing">>, <<"analyzed", "analyzing">>,
           <<"analyzing", "analyzed">>, <<"analyzing", "analysis_failed">>}
StatusOf(j) == IF j \in Created THEN jobs[j].status ELSE "none"
Allowed(from, to) == from = to \/ <<from, to>> \in Listed

(* C1: under any sequence of createJob, startJob, startAnalysis and deleteJob calls and  *)
(* task completions, every change of a job's status is one of the listed transitions     *)
(* (an accepted startAnalysis writes analyzing first), and startJob only moves a job     *)
(* from pending to running.                                                              *)
C1_ListedTransitions ==
    [][\A j \in Created :
          /\ IF lastOp' = Op("startAnalysis", j, "ok")
             THEN /\ Allowed(jobs[j].status, "analyzing")
                  /\ Allowed("analyzing", jobs'[j].status)
             ELSE Allowed(jobs[j].status, jobs'[j].status)
          /\ lastOp' = Op("startJob", j, "ok") => jobs[j].status = "pending"]_vars

(* C2: startAnalysis on a job of the table whose status is pending, running or failed    *)
(* fails with an error, leaves the job record unchanged and starts no task.              *)
C2_RejectedStartAnalysis ==
    [][\A j \in Created :
          (Called("startAnalysis", j) /\ j \in table
             /\ jobs[j].status \in {"pending", "running", "failed"})
          => (lastOp'.res = NotScraped /\ jobs' = jobs /\ tasks' = tasks /\ files' = files)]_vars

C2_Witness ==
    \E j \in Created : lastOp = Op("startAnalysis", j, NotScraped) /\ jobs[j].status = "failed"

(* C3: when the routes are the callers, startAnalysis on a job that is analyzing is      *)
(* rejected with an error and starts nothing, and at most one analysis task is in        *)
(* flight for a job.                                                                     *)
C3_OneAnalysis ==
    /\ [](\A j \in Created : InFlight(j, {"analysis"}) <= 1)
    /\ [][\A j \in Created :
             (Called("startAnalysis", j) /\ j \in table /\ jobs[j].status = "analyzing")
             => (lastOp'.res = NotScraped /\ jobs' = jobs /\ tasks' = tasks)]_vars

C3_Witness ==
    \E j \in Created : /\ lastOp = Op("startAnalysis", j, NotScraped)
                       /\ jobs[j].status = "analyzing"
                       /\ InFlight(j, {"analysis"}) = 1

(* C4: at every moment at most one background task (scrape or analysis) is in flight     *)
(* for a job.                                                                            *)
C4_OneTaskPerJob == \A j \in Created : InFlight(j, {"scrape", "analysis"}) <= 1

(* C5: when every I/O of a task eventually returns or throws, a job in status running    *)
(* eventually is scraped or failed, and a job in status analyzing eventually is analyzed *)
(* or analysis_failed.                                                                   *)
C5_Terminates ==
    \A j \in Ids :
        /\ (StatusOf(j) = "running") ~> (StatusOf(j) \in {"scraped", "failed"})
        /\ (StatusOf(j) = "analyzing") ~> (StatusOf(j) \in {"analyzed", "analysis_failed"})

C5_Witness ==
    \E j \in Created : lastOp = Op("analysisTask", j, "ok") /\ jobs[j].status = "analyzed"

(* C6: when startJob returns the job its status is running, and when an accepted         *)
(* startAnalysis returns the job its status is analyzing.                                *)
C6_ReturnsBeforeFinish ==
    \A j \in Created :
        /\ lastOp = Op("startJob", j, "ok") => jobs[j].status = "running"
        /\ lastOp = Op("startAnalysis", j, "ok") => jobs[j].status = "analyzing"

(* C7: a scrape during which a request for posts or comments failed ends with the job    *)
(* in status failed and job.error set, not in status scraped with a corpus file.         *)
C7_FetchFailureFailsJob ==
    [][\A task \in Suspended({"scrape"}) :
          (task.fetchErr /\ task.pc = "write" /\ CopiesIn(task, tasks') < CopiesIn(task, tasks))
          => (jobs'[task.job].status = "failed" /\ jobs'[task.job].error # "null"
                /\ task.name \notin files')]_vars

(* C8: when the analysis task throws, at whatever step, the job ends in analysis_failed  *)
(* with job.error the thrown message and progress {error, 0}; when the backend is not    *)
(* configured the error is the configuration error and no request to it is started.      *)
C8_AnalysisFailure ==
    [][\A j \in Created :
          /\ (Called("analysisTask", j) /\ lastOp'.res # "ok")
             => /\ jobs'[j].status = "analysis_failed"
                /\ jobs'[j].error = lastOp'.res
                /\ jobs'[j].progress = Progress("error", 0)
          /\ (lastOp' = Op("startAnalysis", j, "ok") /\ ~configured)
             => /\ jobs'[j].status = "analysis_failed"
                /\ jobs'[j].error = NotConfigured
                /\ jobs'[j].progress = Progress("error", 0)
                /\ tasks' = tasks]_vars

C8_Witness ==
    \E j \in Created : /\ lastOp = Op("analysisTask", j, WriteError)
                       /\ jobs[j].status = "analysis_failed"
                       /\ jobs[j].error = WriteError

(* C9: startAnalysis on a job of the table whose status is analysis_failed is accepted   *)
(* and starts the analysis again.                                                        *)
C9_RetryAccepted ==
    [][\A j \in Created :
          (Called("startAnalysis", j) /\ j \in table /\ jobs[j].status = "analysis_failed")
          => lastOp'.res = "ok"]_vars

(* C10: once deleteJob has removed a job from the table, the job stays absent and no     *)
(* corpus or analysis file written for it is left in the data directory.                 *)
C10_DeleteRemovesAll ==
    \A j \in Created : j \notin table => \A f \in files : f.job # j

(* C11: deleteJob returns true or false and never throws; it returns false only for an   *)
(* id that is not in the table, and then the table, the job records, the tasks and the   *)
(* data directory are unchanged; it returns true only on a call that found the job in    *)
(* the table, and then the job is out of the table, also when an unlink threw.           *)
C11_DeleteResult ==
    [][\A j \in Ids :
          Called("deleteJob", j)
          => /\ lastOp'.res \in {"true", "false"}
             /\ lastOp'.res = "false"
                => (j \notin table /\ table' = table /\ jobs' = jobs
                      /\ tasks' = tasks /\ files' = files)
             /\ lastOp'.res = "true"
                => /\ j \notin table'
                   /\ j \in table \/ \E task \in Suspended({"delete"}) : task.job = j]_vars

C11_Witness ==
    \E j \in Created : /\ lastOp = Op("deleteJob", j, "true")
                       /\ j \notin table
                       /\ jobs[j].dataFile \in files
                       /\ InFlight(j, {"scrape", "analysis"}) = 0

(* C12: getScrapedData and getAnalysisResult never throw: whatever the job and whatever  *)
(* runs beside them (deleteJob included), they return the data or null.                  *)
C12_GettersNeverThrow ==
    lastOp.op \in Getters => lastOp.res \in {"null", "data"}

(* C13: exportAnalysis goes on to read the report only for a job of the table that has   *)
(* an analysis file, and fails with an error at once otherwise; an export file is        *)
(* written only by an export of format json, markdown or csv, which then returns; an     *)
(* export of any other format ends with an error; an export that ends with an error      *)
(* writes nothing, and no export changes a job record.                                   *)
C13_ExportOnlyWhenValid ==
    [][/\ \A j \in Ids :
             Called("exportAnalysis", j)
             => /\ jobs' = jobs /\ files' = files
                /\ lastOp'.res = "pending" => (j \in table /\ jobs[j].analysisFile # NoFile)
                /\ lastOp'.res = NoAnalysis
                   => ((j \notin table \/ jobs[j].analysisFile = NoFile) /\ tasks' = tasks)
                /\ lastOp'.res # "ok" => exports' = exports
       /\ exports' # exports
          => \E task \in Suspended({"exportAnalysis"}) :
                /\ task.pc = "write" /\ task.format \in {"json", "markdown", "csv"}
                /\ lastOp' = Op("exportAnalysis", task.job, "ok")
                /\ exports' = Written(exports, task.name, task.job)
       /\ \A task \in Suspended({"exportAnalysis"}) :
             (task.format \notin {"json", "markdown", "csv"}
                /\ CopiesIn(task, tasks') < CopiesIn(task, tasks))
             => (lastOp'.res \in {Unsupported, ReadError} /\ exports' = exports)]_vars

C13_Witness ==
    /\ lastOp.op = "exportAnalysis" /\ lastOp.res = Unsupported
    /\ exports # <<>>
    /\ \E j \in Created : jobs[j].status = "analyzed"

(* C14: two different jobs never write the same file: the tasks of different jobs that   *)
(* are about to write hold different file names, and no task is about to write over a    *)
(* file that holds another job's export.                                                 *)
C14_NoSharedFile ==
    \A t1 \in BagToSet(tasks) :
        t1.pc = "write"
        => /\ \A t2 \in BagToSet(tasks) :
                 (t2.pc = "write" /\ t2.job # t1.job) => t2.name # t1.name
           /\ (t1.kind = "exportAnalysis" /\ t1.name \in DOMAIN exports)
              => exports[t1.name] = t1.job

(* C15: a job whose status is scraped or analyzed has progress.percent = 100, from the   *)
(* moment it enters the status and for as long as it keeps it, whatever is called.       *)
C15_DoneMeansHundred ==
    \A j \in Created :
        jobs[j].status \in {"scraped", "analyzed"} => jobs[j].progress.percent = 100

(* C16: every job's progress.percent is between 0 and 100, for the updates relayed from  *)
(* the scrape (at most postLimit posts per subreddit) and from the analysis and for the  *)
(* resets of a failure.                                                                  *)
C16_PercentInRange ==
    \A j \in Created : jobs[j].progress.percent \in 0..100

C16_Witness ==
    \E j \in Created : /\ jobs[j].status = "running"
                       /\ jobs[j].progress = Progress("comments", 50)

(* C17: createJob adds exactly one job, under an id no job has or had, with status       *)
(* pending, percent 0, error null, no result and no file reference; a config field that  *)
(* is absent gets its default (post limit 50, comment limit 50, sort top, time filter    *)
(* year); the other jobs, the tasks and the files are unchanged.                         *)
C17_CreateJob ==
    [][lastOp'.op = "createJob" /\ jobs' # jobs
       => LET j == lastOp'.id
              job == jobs'[j]
          IN  /\ j \notin DOMAIN jobs /\ j \notin table
              /\ DOMAIN jobs' = DOMAIN jobs \cup {j}
              /\ table' = table \cup {j}
              /\ \A i \in DOMAIN jobs : jobs'[i] = jobs[i]
              /\ job.status = "pending" /\ job.progress.percent = 0
              /\ job.error = "null" /\ job.result = "null"
              /\ job.dataFile = NoFile /\ job.analysisFile = NoFile
              /\ input'.postLimit = <<>> => job.config.postLimit = 50
              /\ input'.commentLimit = <<>> => job.config.commentLimit = 50
              /\ input'.sort = <<>> => job.config.sort = "top"
              /\ input'.timeFilter = <<>> => job.config.timeFilter = "year"
              /\ tasks' = tasks /\ files' = files /\ exports' = exports]_vars

C17_Witness ==
    /\ lastOp = Op("createJob", 2, "ok")
    /\ input.postLimit = <<>> /\ input.sort = <<>>
    /\ jobs[2].config.postLimit = 50 /\ jobs[2].config.sort = "top"
    /\ jobs[1].config.sort = "new"

(* C18: getAllJobs returns each job of the table exactly once, newest first by creation  *)
(* time, and changes neither the table nor a job.                                        *)
C18_GetAllJobs ==
    [][lastOp'.op = "getAllJobs"
       => /\ {output'[i] : i \in DOMAIN output'} = table
          /\ Len(output') = Cardinality(table)
          /\ \A i, k \in DOMAIN output' :
                i < k => DateOf(jobs[output'[i]].createdAt) >= DateOf(jobs[output'[k]].createdAt)
          /\ jobs' = jobs /\ table' = table]_vars

C18_Witness ==
    /\ lastOp.op = "getAllJobs"
    /\ Len(output) = 2 /\ Len(jobs) = 3
    /\ DateOf(jobs[output[1]].createdAt) > DateOf(jobs[output[2]].createdAt)

(* C19: _generateHypotheses returns 0 to 3 hypotheses: the Hidden Root Cause one iff     *)
(* root causes and working solutions are both non-empty, the Missing Piece one iff       *)
(* failed solutions are non-empty, the Connected Symptoms one iff there are at least 6   *)
(* symptoms, in that order, each with at most 3 target pain points.                      *)
C19_Hypotheses ==
    lastOp.op = "_generateHypotheses"
    => LET material == input.mechanismMaterial
           Gate(name) ==
               CASE name = HiddenRootCause ->
                        Len(material.rootCauses) >= 1 /\ Len(material.workingSolutions) >= 1
                 [] name = MissingPiece -> Len(material.failedSolutions) >= 1
                 [] OTHER -> Len(input.symptoms) >= 6
       IN  /\ [i \in DOMAIN output |-> output[i].name]
                = SelectSeq(<<HiddenRootCause, MissingPiece, ConnectedSymptoms>>, Gate)
           /\ Len(output) \in 0..3
           /\ \A i \in DOMAIN output : Len(output[i].targetPainPoints) <= 3

C19_Witness ==
    /\ lastOp.op = "_generateHypotheses"
    /\ Len(output) = 3 /\ Len(input.painPoints) = 4 /\ Len(input.symptoms) = 6

(* C20: _findSymptomClusters returns at most 20 clusters, each with 2 to 5 symptoms and   *)
(* a frequency of at least 2, ordered by frequency non-increasing.                        *)
C20_Clusters ==
    lastOp.op = "_findSymptomClusters"
    => /\ Len(output) <= 20
       /\ \A i \in DOMAIN output :
             /\ Len(output[i].symptoms) \in 2..5
             /\ output[i].frequency >= 2
       /\ \A i, k \in DOMAIN output : i < k => output[i].frequency >= output[k].frequency

C20_Witness ==
    /\ lastOp.op = "_findSymptomClusters"
    /\ Len(output) = 20
    /\ output[1].frequency > output[20].frequency
    /\ \E i \in DOMAIN output : Len(output[i].symptoms) = 5
    /\ Len(ClusterMap(input.posts, input.symptoms)) > 20

(* C21: _dedupeAndRank applied to the list it returned returns that list: the same      *)
(* items in the same order with the same frequency and sources.                         *)
C21_DedupeIdempotent ==
    lastOp = Op("_dedupeAndRank", 0, "again") => output = input

(* C22: for every corpus each pain point's priorityScore lies in [0,10] (its volume and  *)
(* emotional components are capped at 10), and the list _extractPainPoints returns is    *)
(* ordered by priorityScore non-increasing.                                             *)
C22_PriorityScore ==
    lastOp.op = "_extractPainPoints"
    => /\ \A i \in DOMAIN output :
             /\ output[i].volumeScore \in 0..100
             /\ output[i].emotionalScore \in 0..100
             /\ output[i].priorityScore \in 0..100
       /\ \A i, k \in DOMAIN output : i < k => output[i].priorityScore >= output[k].priorityScore

C22_Witness ==
    /\ lastOp.op = "_extractPainPoints"
    /\ Len(output) = 2
    /\ output[1].priorityScore = 100 /\ output[1].name = "IBS"
    /\ output[2].priorityScore \in 1..99
    /\ input[1].indicators = <<"Bloating">>

RECURSIVE ChargeOf(_)
ChargeOf(matching) ==
    IF matching = {} THEN 0
    ELSE LET p == CHOOSE q \in matching : TRUE IN input[p].charge + ChargeOf(matching \ {p})

(* C27: the threadCount of each pain point is the number of distinct posts in which an   *)
(* indicator with the pain point's name matched: a post in which the name matches        *)
(* several times adds 1 to threadCount and adds its emotional charge once.               *)
C27_ThreadCount ==
    lastOp.op = "_extractPainPoints"
    => \A i \in DOMAIN output :
          LET with == {p \in DOMAIN input : Matches(input[p], output[i].name) >= 1}
          IN  /\ output[i].threadCount = Cardinality(with)
              /\ output[i].emotionalCharge = ChargeOf(with)

EmptyCorpus == input.posts = <<>> /\ input.sourceLog = <<>>

(* C23: analyzeData on a corpus of 0 posts and an empty source log raises no exception   *)
(* and returns a report with totalPainPoints = 0, totalSymptoms = 0 and no hypotheses;   *)
(* the job analysing it does not end in analysis_failed unless a file operation failed,  *)
(* and ends in analyzed once the report is written.                                      *)
C23_EmptyCorpus ==
    EmptyCorpus
    => /\ output # <<>>
          => /\ ~output.threw
             /\ output.summary.totalPainPoints = 0
             /\ output.summary.totalSymptoms = 0
             /\ output.mechanismHypotheses = <<>>
       /\ jobs[1].status = "analysis_failed" => jobs[1].error \in {ReadError, WriteError}
       /\ lastOp = Op("analysisTask", 1, "ok") => jobs[1].status = "analyzed"

C23_Witness ==
    /\ EmptyCorpus
    /\ lastOp = Op("analysisTask", 1, "ok")
    /\ jobs[1].status = "analyzed"
    /\ output.summary.totalPainPoints = 0 /\ output.summary.hypothesesGenerated = 0

(* C24: analyzeData never throws for a post with missing optional fields: a post without *)
(* a comments list, a comment without a replies list or a post without a score still     *)
(* gives a report.                                                                       *)
C24_NeverThrows ==
    lastOp.op \in {"analyzeData", "analysisTask"} /\ output # <<>> => ~output.threw

ClientFault ==
    \/ lastOp.op = "postJobs" /\ lastOp.res = "400"
    \/ lastOp.res \in {JobNotFound, NotScraped, NoAnalysis, Unsupported}
    \/ lastOp.op \in Getters /\ lastOp.res = "null"
    \/ lastOp.op = "deleteJob" /\ lastOp.res = "false"

(* C26: every error response is a JSON object with an error field; a fault of the        *)
(* client's input is answered with a 4xx status and only a server fault with a 5xx       *)
(* status.                                                                               *)
C26_ErrorStatus ==
    Answered
    => /\ Response.status >= 400 => Response.error # <<>>
       /\ ClientFault => Response.status \in 400..499
       /\ Response.status \in 500..599 => ~ClientFault

(* C28: in every reachable state, a job whose status is scraped has its dataFile and its *)
(* result set; a job whose status is analyzing, analyzed or analysis_failed has its      *)
(* dataFile set; a job whose status is analyzed has its analysisFile set; and a file     *)
(* reference of a job of the table names a file that was written (it is in the data      *)
(* directory unless a deleteJob of the job is unlinking its files).                      *)
C28_ReferencesSet ==
    \A j \in Created :
        /\ jobs[j].status = "scraped" => (jobs[j].dataFile # NoFile /\ jobs[j].result # "null")
        /\ jobs[j].status \in {"analyzing", "analyzed", "analysis_failed"} => jobs[j].dataFile # NoFile
        /\ jobs[j].status = "analyzed" => jobs[j].analysisFile # NoFile
        /\ (j \in table /\ InFlight(j, {"delete"}) = 0)
           => \A name \in {jobs[j].dataFile, jobs[j].analysisFile} \ {NoFile} : name \in files

C28_Witness ==
    \E j \in table :
        /\ jobs[j].status = "analyzed" /\ jobs[j].result = "summary"
        /\ jobs[j].dataFile \in files /\ jobs[j].analysisFile \in files
        /\ lastOp = Op("analysisTask", j, "ok")

(* C29: in every reachable state a job's error is set exactly when its status is failed  *)
(* or analysis_failed, under any sequence of startJob and startAnalysis calls.           *)
C29_ErrorIffFailed ==
    \A j \in Created :
        jobs[j].error # "null" <=> jobs[j].status \in {"failed", "analysis_failed"}

(* C30: an analysis run that fails on a job that already has a report leaves the job's   *)
(* analysisFile and the files of the data directory unchanged; no step of an analysis    *)
(* run changes the job's dataFile; and getAnalysisResult and exportAnalysis on a job in  *)
(* analysis_failed whose report is in the data directory serve that report.              *)
C30_FailedReanalysis ==
    [][\A j \in Created :
          /\ ((Called("analysisTask", j) /\ lastOp'.res # "ok")
                \/ (lastOp' = Op("startAnalysis", j, "ok") /\ ~configured))
             => /\ jobs'[j].status = "analysis_failed"
                /\ jobs'[j].analysisFile = jobs[j].analysisFile
                /\ files' = files
          /\ (Called("analysisTask", j) \/ Called("startAnalysis", j)
                \/ \E task \in Suspended({"analysis"}) :
                      task.job = j /\ CopiesIn(task, tasks') < CopiesIn(task, tasks))
             => jobs'[j].dataFile = jobs[j].dataFile
          /\ (j \in table /\ jobs[j].status = "analysis_failed" /\ jobs[j].analysisFile \in files)
             => /\ Called("getAnalysisResult", j) => lastOp'.res = "data"
                /\ Called("exportAnalysis", j) => lastOp'.res \notin {NoAnalysis, ReadError}]_vars

C30_Witness ==
    \E j \in table :
        /\ lastOp = Op("getAnalysisResult", j, "data")
        /\ jobs[j].status = "analysis_failed"
        /\ jobs[j].analysisFile \in files
====
